---- MODULE Spec2Model ----
(***************************************************************************)
(* Model of the Civitai acquisition pipeline, src/civitai/server.py:       *)
(* CivitaiScraper.fetch_images (cursor pagination with early stops),       *)
(* CivitaiScraper.download_media, CivitaiScraper.run (download loop with   *)
(* quotas, periodic and final saves), the persisted ledger file, and a     *)
(* process kill followed by a restart with the same configuration name.    *)
(***************************************************************************)
EXTENDS Integers, Sequences, FiniteSets, TLC

(* ------------------------------ bounds --------------------------------- *)
\* largest target_images / target_videos drawn by Init
MaxTarget == 1
\* largest max_pages drawn by InitFetch (the fetch phase on its own)
MaxPages == 6
\* largest max_pages drawn by Init (whole runs)
MaxRunPages == 2
\* number of runs (the first run and its restarts) with one configuration
\* name in SpecRestart
MaxRuns == 2
\* environment faults (failed transfers, failed writes) per run
MaxFaults == 1
\* most listing requests of the fetch phase of the low-yield specification
MaxLowPages == 9

(* -------------------------- program constants -------------------------- *)
\* fetch_images: "if consecutive_low_votes >= 5"
LowYieldPages == 5
\* run: "if idx % 50 == 0" (ledger and summary checkpoint)
CheckpointEvery == 50
\* fetch_images: "limit_per_request: int = 200", the most items of a page
PageLimit == 200

(* --------------------- Python values used by the code ------------------ *)
\* None is the empty tuple, a present value v is <<v>>
None == <<>>

Some(v) == <<v>>

\* dict.get(k): the value, or None when the key is missing
Get(d, k) == IF k \in DOMAIN d THEN d[k] ELSE None

\* dict.get(k, default)
GetD(d, k, default) == IF k \in DOMAIN d THEN d[k] ELSE default

\* truthiness of an optional integer: None and 0 are falsy
TruthyInt(v) == v # None /\ v[1] # 0

\* truthiness of an optional string: None and the empty string are falsy
TruthyStr(v) == v # None /\ v[1] # <<>>

Digit == <<"0", "1", "2", "3", "4", "5", "6", "7", "8", "9">>

RECURSIVE Str(_)
\* str(item_id) of a non-negative integer id
Str(i) == IF i < 10 THEN Digit[i + 1] ELSE Str(i \div 10) \o Digit[(i % 10) + 1]

(* ------------------------------ URLs ----------------------------------- *)
\* a URL is a sequence of characters
UrlJpeg == <<"a", ".", "j", "p", "e", "g">>
UrlMp4 == <<"b", ".", "m", "p", "4">>
UrlMp4Upper == <<"c", ".", "M", "P", "4">>
UrlNoExt == <<"d">>
UrlMpeg == <<"e", ".", "m", "p", "e", "g">>
UrlPng == <<"c", ".", "p", "n", "g">>
UrlWebm == <<"f", ".", "w", "e", "b", "m">>
UrlMpgUpper == <<"g", ".", "M", "P", "g">>
UrlDirMpeg == <<"h", ".", "m", "p", "e", "g", "/", "d">>

LowerChar(c) == IF c = "M" THEN "m" ELSE IF c = "P" THEN "p" ELSE c

\* str.lower()
Lower(s) == [i \in DOMAIN s |-> LowerChar(s[i])]

\* str.endswith(suf)
EndsWith(s, suf) ==
    /\ Len(s) >= Len(suf)
    /\ SubSeq(s, Len(s) - Len(suf) + 1, Len(s)) = suf

video_extensions ==
    { <<".", "m", "p", "4">>, <<".", "w", "e", "b", "m">>, <<".", "m", "o", "v">>,
      <<".", "a", "v", "i">>, <<".", "m", "k", "v">> }

\* index of the last occurrence of character c in s, 0 when there is none
LastIndexOf(s, c) ==
    LET hits == {i \in DOMAIN s : s[i] = c}
    IN IF hits = {} THEN 0 ELSE CHOOSE i \in hits : \A j \in hits : j <= i

\* Path(url).suffix: the final component's last dot and what follows it,
\* empty when there is no dot, or the dot leads or ends the component
PathSuffix(s) ==
    LET slash == LastIndexOf(s, "/")
        name == SubSeq(s, slash + 1, Len(s))
        dot == LastIndexOf(name, ".")
    IN IF dot <= 1 \/ dot = Len(name) THEN <<>> ELSE SubSeq(name, dot, Len(name))

\* mimetypes.types_map: the [type, subtype] of an extension, None for an
\* unknown one
TypesMap(ext) ==
       IF ext \in {<<".", "m", "p", "4">>} THEN Some(<<"video", "mp4">>)
       ELSE IF ext \in {<<".", "m", "p", "e", "g">>, <<".", "m", "p", "g">>}
            THEN Some(<<"video", "mpeg">>)
       ELSE IF ext \in {<<".", "m", "o", "v">>} THEN Some(<<"video", "quicktime">>)
       ELSE IF ext \in {<<".", "w", "e", "b", "m">>} THEN Some(<<"video", "webm">>)
       ELSE IF ext \in {<<".", "a", "v", "i">>} THEN Some(<<"video", "x-msvideo">>)
       ELSE IF ext \in {<<".", "j", "p", "e", "g">>, <<".", "j", "p", "g">>}
            THEN Some(<<"image", "jpeg">>)
       ELSE IF ext \in {<<".", "p", "n", "g">>} THEN Some(<<"image", "png">>)
       ELSE None

\* mimetypes.guess_type(url)[0], from the extension (looked up as written,
\* then lower-cased); the suffix and its lower-case form are computed once
GuessType(s) ==
    CHOOSE t \in {TypesMap(ext) : ext \in {Lower(suffix) : suffix \in {PathSuffix(s)}}} : TRUE

\* _is_video(url, item): extension, then meta duration/fps, then MIME type
_is_videoByExtension(url, item) ==
    \E ext \in video_extensions : EndsWith(Lower(url), ext)

_is_video(url, item) ==
    LET meta == Get(item, "meta")
    IN \/ \E ext \in video_extensions : EndsWith(Lower(url), ext)
       \/ (meta # None /\ ("duration" \in meta[1] \/ "fps" \in meta[1]))
       \/ \E mime_type \in {GuessType(url)} : mime_type # None /\ mime_type[1][1] = "video"

(* ------------------------------ items ---------------------------------- *)
\* an item is a dict: id, url, stats (reaction counts), optional meta (the
\* set of keys of the metadata block)
ItemImg == [id |-> Some(1), url |-> Some(UrlJpeg), stats |-> [likeCount |-> 2, heartCount |-> 1]]
ItemVid == [id |-> Some(2), url |-> Some(UrlMp4), stats |-> [heartCount |-> 2]]
ItemImg2 == [id |-> Some(3), url |-> Some(UrlNoExt), stats |-> [likeCount |-> 1, cryCount |-> 1],
             meta |-> Some({"prompt"})]
ItemLow == [id |-> Some(4), url |-> Some(UrlJpeg), stats |-> [likeCount |-> 1]]
ItemNoStats == [id |-> Some(5), url |-> Some(UrlMpeg)]
\* malformed items: no "id" key, no "url" key, "url": null
ItemNoId == [url |-> Some(UrlJpeg), stats |-> [likeCount |-> 2]]
ItemNoUrl == [id |-> Some(6), stats |-> [laughCount |-> 2]]
ItemNullUrl == [id |-> Some(7), url |-> None, stats |-> [heartCount |-> 3]]

\* the pages the listing endpoint can return
PagePool ==
    { <<>>,
      <<ItemLow>>,
      <<ItemImg>>,
      <<ItemImg2, ItemNoStats, ItemVid>>,
      <<ItemNoId, ItemNoUrl, ItemNullUrl>> }

\* long pages, whose items carry the download loop past its 50-item
\* checkpoint: a malformed item, ItemVid up to the checkpoint, ItemImg at
\* the checkpoint, then a null URL; and ItemVid up to the checkpoint
LongA ==
    [i \in 1..(CheckpointEvery + 2) |->
        IF i = 1 THEN ItemNoId
        ELSE IF i = CheckpointEvery THEN ItemImg
        ELSE IF i = CheckpointEvery + 1 THEN ItemNullUrl
        ELSE IF i = CheckpointEvery + 2 THEN ItemImg2
        ELSE ItemVid]

LongB == [i \in 1..CheckpointEvery |-> ItemVid]

LongPages == {LongA, LongB}

\* the metadata of the response to the r-th listing request: its next-page
\* tokens are r itself, under either key, both, or none
MetaShapes(r) ==
    { [nextCursor |-> Some(r), nextPage |-> Some(r)],
      [nextCursor |-> Some(r)],
      [nextPage |-> Some(r)],
      <<>> }

(* ------------------------------ state ---------------------------------- *)
VARIABLES
    feed,            \* the pages the listing endpoint can answer with
    config,          \* self.config: target_images, target_videos, min_votes, max_pages
    pc,              \* where the process is: "fetch", "fetched", "loop", "final",
                     \* "done" (run returned), "raised_in_loop" (run left by an
                     \* exception of the classification in the loop),
                     \* "raised_in_save" (run left by an exception of a periodic
                     \* save), "crashed" (process killed) or "init_failed"
                     \* (__init__ raised)
    run,             \* ordinal of the current run with this configuration name
    downloaded_ids,  \* self.downloaded_ids: the in-memory ledger
    stats,           \* self.stats
    all_items,       \* fetch_images: all_items, then run: items
    next_cursor,     \* fetch_images: next_cursor
    request_count,   \* fetch_images: request_count
    consecutive_low_votes, \* fetch_images: consecutive_low_votes
    stop_reason,     \* "Fetching", or which break ended the fetch loop
    sent,            \* the cursor carried by each listing request of this run
    last_meta,       \* the metadata of the latest listing response of this run
    last_page,       \* the items of the latest listing response of this run
    last_good,       \* history: the ordinal of the latest answered listing
                     \* request of this run whose page was not counted as
                     \* low-yield, 0 when there is none
    loaded_ids,      \* the ledger as __init__ loaded it for this run
    idx,             \* run: idx of the download loop
    outcomes,        \* what the loop did with items 1..idx-1 of this run
    transfers,       \* the byte transfers started in this run: [id, ok], in order
    faults,          \* environment faults injected in this run
    ledger_file,     \* metadata/<config_name>_downloaded_ids.json: None (no file),
                     \* Some(ids) (a JSON array, read back with set()) or Truncated
    config_file,     \* <config_name>.json: None or Some(stats)
    media_files,     \* files under images/ and videos/
    meta_files,      \* metadata/civitai_<id>.json files
    hist,            \* one record per earlier run of this configuration name
    pending,         \* viewer, get_civitai_items: the metadata files the for loop
                     \* has not visited yet
    listing,         \* viewer, get_civitai_items: items
    arg,             \* the arguments of a function applied on its own
    res,             \* its result
    events           \* history of this run: "request" for a listing request,
                     \* "downloaded" for a download that succeeded, and
                     \* "sleep 1", "sleep 5", "sleep 0.5" for the time.sleep calls

\* the variables the scraper leaves alone
sideVars == <<pending, listing, arg, res>>

vars == <<sideVars, events, feed, config, pc, run, downloaded_ids, stats, all_items, next_cursor, request_count,
          consecutive_low_votes, stop_reason, sent, last_meta, last_page, last_good, loaded_ids, idx, outcomes,
          transfers,
          faults, ledger_file, config_file, media_files, meta_files, hist>>

fetchVars == <<all_items, next_cursor, request_count, consecutive_low_votes,
               stop_reason, sent, last_meta, last_page, last_good>>

diskVars == <<ledger_file, config_file, media_files, meta_files>>

ZeroStats ==
    [images_downloaded |-> 0, videos_downloaded |-> 0, images_skipped |-> 0,
     videos_skipped |-> 0, errors |-> 0]

\* the ledger file after open(ids_file, 'w') truncated it and the process
\* was killed before json.dump and close completed: not a JSON document
Truncated == <<{}, {}>>

\* _load_downloaded_ids: the set in the file, or the empty set without a file
LoadIdsIgnoreFile(file) == {}

_load_downloaded_ids(file) == IF file # None THEN file[1] ELSE {}

(* --------------------------- fetch_images ------------------------------ *)
\* total_reactions of an item: the four counts, each 0 when missing
TotalReactionsNoCry(item) ==
    LET st == GetD(item, "stats", <<>>)
    IN GetD(st, "likeCount", 0) + GetD(st, "heartCount", 0) + GetD(st, "laughCount", 0)

total_reactions(item) ==
    LET st == GetD(item, "stats", <<>>)
    IN GetD(st, "likeCount", 0) + GetD(st, "heartCount", 0)
       + GetD(st, "laughCount", 0) + GetD(st, "cryCount", 0)

\* the items of a page that are appended to all_items
QualifyingNotInLedger(items, min_reactions, ledger) ==
    SelectSeq(items, LAMBDA it : total_reactions(it) >= min_reactions
                                 /\ (Get(it, "id") = None \/ Str(it.id[1]) \notin ledger))

Qualifying(items, min_reactions, ledger) ==
    SelectSeq(items, LAMBDA it : total_reactions(it) >= min_reactions)

\* "items_meeting_criteria < len(items) * 0.1": the product is the IEEE 754
\* double nearest to len(items) times the double 0.1, and the comparison of
\* the integer with it is exact. Numbers are sequences of limbs of 14 bits,
\* least significant first.
\* the double 0.1 is 7205759403792794 / 2^56: the limbs of its numerator
Tenth == <<6554, 9830, 6553, 1638>>

\* n times the numerator of 0.1, as 5 limbs
RECURSIVE MulLimbs(_, _, _)
MulLimbs(n, i, carry) ==
    IF i > Len(Tenth) THEN <<carry>>
    ELSE LET v == n * Tenth[i] + carry
         IN <<v % 16384>> \o MulLimbs(n, i + 1, v \div 16384)

RECURSIVE BitLen(_)
BitLen(v) == IF v = 0 THEN 0 ELSE 1 + BitLen(v \div 2)

\* the carries of a limb sequence whose first limb may have overflowed
RECURSIVE Carry(_, _)
Carry(limbs, c) ==
    IF limbs = <<>> THEN <<>>
    ELSE <<(limbs[1] + c) % 16384>> \o Carry(Tail(limbs), (limbs[1] + c) \div 16384)

\* round to nearest, ties to even: whether dropping the s low bits, of value
\* low, of a number whose bit s is odd, rounds up
RoundsUpAlways(low, s, odd) == low > 0

RoundsUp(low, s, odd) == 2 * low > 2 ^ s \/ (2 * low = 2 ^ s /\ odd)

\* float(n) * 0.1 as limbs of its multiple by 2^56: the exact product
\* rounded to 53 significant bits
\* the number of low bits that 53 significant bits leave out
DroppedBits(exact) ==
    LET bits == IF exact[5] > 0 THEN 56 + BitLen(exact[5]) ELSE 42 + BitLen(exact[4])
    IN IF bits > 53 THEN bits - 53 ELSE 0

Rounded(exact, s) ==
    LET low == exact[1] % (2 ^ s)
        odd == (exact[1] \div (2 ^ s)) % 2 = 1
    IN Carry(<<exact[1] - low + (IF RoundsUp(low, s, odd) THEN 2 ^ s ELSE 0)>> \o Tail(exact), 0)

TimesTenth(n) ==
    CHOOSE x \in {Rounded(e[1], e[2]) :
                    e \in {<<exact, DroppedBits(exact)>> : exact \in {MulLimbs(n, 1, 0)}}} : TRUE

\* k < x for the integer k and the double x given as limbs of x * 2^56
IntLessThan(k, x) ==
    k < x[5] \/ (k = x[5] /\ \E i \in 1..4 : x[i] > 0)

LowYieldAtMost(k, n) == 10 * k <= n

LowYield(k, n) == \E product \in {TimesTenth(n)} : IntLessThan(k, product)

\* "consecutive_low_votes += 1" for a low-yield page, else "= 0"
NextLowCountNoReset(low, count) == IF low THEN count + 1 ELSE count

NextLowCount(low, count) == IF low THEN count + 1 ELSE 0

target_total == config.target_images + config.target_videos

\* which break, if any, ends the loop after a page has been processed
StopAfterPageNoTarget(n_all, low, meta) ==
    IF low >= LowYieldPages THEN "LowYield"
    ELSE IF ~TruthyInt(Get(meta, "nextCursor")) /\ ~TruthyInt(Get(meta, "nextPage"))
         THEN "Exhausted"
    ELSE "Fetching"

StopAfterPageNoExhausted(n_all, low, meta) ==
    IF n_all >= target_total THEN "TargetReached"
    ELSE IF low >= LowYieldPages THEN "LowYield"
    ELSE "Fetching"

StopAfterPage(n_all, low, meta) ==
    IF n_all >= target_total THEN "TargetReached"
    ELSE IF low >= LowYieldPages THEN "LowYield"
    ELSE IF ~TruthyInt(Get(meta, "nextCursor")) /\ ~TruthyInt(Get(meta, "nextPage"))
         THEN "Exhausted"
    ELSE "Fetching"

\* "time.sleep(1)" at the end of an iteration that no break has left
PauseAfterPageNever(stop) == <<>>

PauseAfterPage(stop) == IF stop = "Fetching" THEN <<"sleep 1">> ELSE <<>>

\* the while condition of fetch_images
MayRequestNoCeiling == stop_reason = "Fetching"

MayRequest == stop_reason = "Fetching" /\ request_count < config.max_pages

\* the cursor the next request carries: params["cursor"] only if next_cursor
CursorParam == IF TruthyInt(next_cursor) THEN next_cursor ELSE None

\* one iteration of the while loop whose request succeeds: the endpoint
\* answers with a page of items and metadata
FetchPageOK(items, meta) ==
    /\ pc = "fetch"
    /\ MayRequest
    /\ sent' = Append(sent, CursorParam)
    /\ last_meta' = meta
    /\ last_page' = items
    /\ request_count' = request_count + 1
    /\ \E passing \in {Qualifying(items, config.min_votes, downloaded_ids)} :
       \E low_yield \in {LowYield(Len(passing), Len(items))} :
          LET low == NextLowCount(low_yield, consecutive_low_votes)
              stop == StopAfterPage(Len(all_items) + Len(passing), low, meta)
          IN /\ all_items' = all_items \o passing
             /\ consecutive_low_votes' = low
             /\ last_good' = IF low_yield THEN last_good ELSE request_count'
             /\ stop_reason' = stop
             /\ events' = events \o <<"request">> \o PauseAfterPage(stop)
             /\ next_cursor' = IF stop \in {"TargetReached", "LowYield"}
                               THEN next_cursor ELSE Get(meta, "nextCursor")
    /\ UNCHANGED <<sideVars, config, feed, loaded_ids, pc, run, downloaded_ids, stats, idx, outcomes, transfers,
                   faults, diskVars, hist>>

\* one iteration whose request raises RequestException
FetchPageErrorRetried ==
    /\ pc = "fetch"
    /\ MayRequest
    /\ sent' = Append(sent, CursorParam)
    /\ stats' = [stats EXCEPT !.errors = @ + 1]
    /\ events' = events \o <<"request", "sleep 5">>
    /\ UNCHANGED <<sideVars, config, feed, loaded_ids, pc, run, downloaded_ids, all_items, next_cursor, request_count,
                   consecutive_low_votes, stop_reason, last_meta, last_page, last_good, idx, outcomes,
                   transfers,
                   faults, diskVars, hist>>

FetchPageErrorUncounted ==
    /\ pc = "fetch"
    /\ MayRequest
    /\ sent' = Append(sent, CursorParam)
    /\ stop_reason' = "TransportError"
    /\ events' = events \o <<"request", "sleep 5">>
    /\ UNCHANGED <<sideVars, config, feed, loaded_ids, pc, run, downloaded_ids, stats, all_items, next_cursor,
                   request_count, consecutive_low_votes, last_meta, last_page, last_good, idx, outcomes,
                   transfers, faults, diskVars, hist>>

FetchPageError ==
    /\ pc = "fetch"
    /\ MayRequest
    /\ sent' = Append(sent, CursorParam)
    /\ stats' = [stats EXCEPT !.errors = @ + 1]
    /\ stop_reason' = "TransportError"
    /\ events' = events \o <<"request", "sleep 5">>
    /\ UNCHANGED <<sideVars, config, feed, loaded_ids, pc, run, downloaded_ids, all_items, next_cursor, request_count,
                   consecutive_low_votes, last_meta, last_page, last_good, idx, outcomes, transfers, faults,
                   diskVars, hist>>

\* a listing request: any page of the pool with any metadata shape, or an error
FetchStep ==
    \/ \E items \in feed : \E meta \in MetaShapes(Len(sent) + 1) :
          FetchPageOK(items, meta)
    \/ FetchPageError

\* fetch_images returns all_items
FetchReturn ==
    /\ pc = "fetch"
    /\ ~MayRequest
    /\ pc' = "fetched"
    /\ UNCHANGED <<sideVars, events, config, feed, loaded_ids, run, downloaded_ids, stats, fetchVars, idx, outcomes,
                   transfers, faults, diskVars, hist>>

(* ------------------- the fetch phase on its own ------------------------ *)
\* the ledger file the fetch phase on its own starts with, left by an
\* earlier run that downloaded ItemImg
LedgerFiles == {Some({Str(ItemImg.id[1])})}

InitFetch ==
    /\ config \in [target_images : 0..MaxTarget, target_videos : 0..MaxTarget,
                    min_votes : {2}, max_pages : {1, MaxPages}]
    /\ feed = PagePool
    /\ pc = "fetch"
    /\ run = 1
    /\ ledger_file \in LedgerFiles
    /\ downloaded_ids = _load_downloaded_ids(ledger_file)
    /\ stats = ZeroStats
    /\ all_items = <<>>
    /\ next_cursor = None
    /\ request_count = 0
    /\ consecutive_low_votes = 0
    /\ stop_reason = "Fetching"
    /\ sent = <<>>
    /\ last_meta = <<>>
    /\ last_page = <<>>
    /\ last_good = 0
    /\ loaded_ids = downloaded_ids
    /\ idx = 1
    /\ outcomes = <<>>
    /\ transfers = <<>>
    /\ faults = 0
    /\ config_file = None
    /\ media_files = {}
    /\ meta_files = <<>>
    /\ hist = <<>>
    /\ events = <<>>
    /\ pending = {}
    /\ listing = <<>>
    /\ arg = <<>>
    /\ res = <<>>

NextFetch == FetchStep \/ FetchReturn

\* the loop is sequential code whose requests return or raise (timeout=30):
\* it keeps taking steps while it has one to take
SpecFetch == InitFetch /\ [][NextFetch]_vars /\ WF_vars(NextFetch)

(* --------------------------- download_media ---------------------------- *)
item == all_items[idx]

\* run: "is_video = self._is_video(item.get("url", ""), item)"
RunIsVideoNever(it) == FALSE

RunIsVideo(it) == _is_video(GetD(it, "url", Some(<<>>))[1], it)

\* download_media: "if not url or not item_id"
MalformedAlways(it) == TRUE

Malformed(it) == ~TruthyStr(Get(it, "url")) \/ ~TruthyInt(Get(it, "id"))

\* download_media: "if str(item_id) in self.downloaded_ids"
AlreadyHaveNever(it) == FALSE

AlreadyHave(it) == Str(it.id[1]) \in downloaded_ids

\* download_media: media_dir / f"civitai_{item_id}{ext}", ext from the URL
\* or the kind's default
DestPathPerAttempt(it) ==
    [dir |-> "images", stem |-> "civitai_" \o Str(it.id[1]) \o "_" \o Str(run),
     ext |-> PathSuffix(it.url[1])]

DestPathUrlExtOnly(it) ==
    [dir |-> IF _is_video(it.url[1], it) THEN "videos" ELSE "images",
     stem |-> "civitai_" \o Str(it.id[1]), ext |-> PathSuffix(it.url[1])]

DestPath(it) ==
    LET url == it.url[1]
        is_video == _is_video(url, it)
        suffix == PathSuffix(url)
        ext == IF suffix = <<>>
               THEN (IF is_video THEN <<".", "m", "p", "4">> ELSE <<".", "j", "p", "e", "g">>)
               ELSE suffix
    IN [dir |-> IF is_video THEN "videos" ELSE "images",
        stem |-> "civitai_" \o Str(it.id[1]), ext |-> ext]

\* metadata_dir / f"civitai_{item_id}.json"
MetaPath(it) == "civitai_" \o Str(it.id[1]) \o ".json"

\* a file written (or overwritten) in the metadata directory
WriteMeta(files, name, ok) ==
    [n \in DOMAIN files \cup {name} |-> IF n = name THEN ok ELSE files[n]]

\* download_media: "self.downloaded_ids.add(str(item_id))"
LedgerAddOnly(ids, it) == {Str(it.id[1])}

LedgerAdd(ids, it) == ids \cup {Str(it.id[1])}

\* download_media: the kind's downloaded counter
CountDownloadedAsImage(st, it) == [st EXCEPT !.images_downloaded = @ + 1]

CountDownloadedNever(st, it) == st

CountDownloaded(st, it) ==
    IF _is_video(it.url[1], it)
    THEN [st EXCEPT !.videos_downloaded = @ + 1]
    ELSE [st EXCEPT !.images_downloaded = @ + 1]

(* -------------------------------- run ---------------------------------- *)
\* run: both targets reached, the loop breaks
BothTargetsMetNever == FALSE

BothTargetsMet ==
    /\ stats.images_downloaded >= config.target_images
    /\ stats.videos_downloaded >= config.target_videos

\* run: "skip if we already have enough of this type"
QuotaMetNever(it) == FALSE

QuotaMet(it) ==
    IF RunIsVideo(it)
    THEN stats.videos_downloaded >= config.target_videos
    ELSE stats.images_downloaded >= config.target_images

\* _save_downloaded_ids: the file holds the list of the in-memory ledger
_save_downloaded_idsFetched(ids) ==
    Some(ids \cup {Str(Get(all_items[k], "id")[1]) :
                     k \in {n \in DOMAIN all_items : Get(all_items[n], "id") # None}})

_save_downloaded_ids(ids) == Some(ids)

\* run: "if idx % 50 == 0": _save_downloaded_ids() and _save_config()
AtCheckpointAlways(i) == TRUE

AtCheckpoint(i) == i % CheckpointEvery = 0

\* the rest of a loop iteration after download_media has returned: the
\* periodic save of the ledger and the summary, and the next idx
\* (_save_downloaded_ids, then _save_config) and the next idx. Neither save
\* is inside a try: when open() or json.dump raises OSError the exception
\* leaves run. A failed open leaves the file as it was, a failed write
\* leaves it truncated.
AfterDownloadSummaryEach(ids, st) ==
    /\ ledger_file' = (IF AtCheckpoint(idx) THEN Some(ids) ELSE ledger_file)
    /\ config_file' = Some(st)
    /\ idx' = idx + 1
    /\ pc' = pc

AfterDownload(ids, st) ==
    IF AtCheckpoint(idx)
    THEN \/ /\ ledger_file' = _save_downloaded_ids(ids)
            /\ config_file' = Some(st)
            /\ idx' = idx + 1
            /\ pc' = pc
         \/ /\ ledger_file' \in {ledger_file, Truncated}
            /\ config_file' = config_file
            /\ idx' = idx
            /\ pc' = "raised_in_save"
         \/ /\ ledger_file' = _save_downloaded_ids(ids)
            /\ config_file' = config_file
            /\ idx' = idx
            /\ pc' = "raised_in_save"
    ELSE /\ ledger_file' = ledger_file
         /\ config_file' = config_file
         /\ idx' = idx + 1
         /\ pc' = pc

InLoop == pc = "loop" /\ idx <= Len(all_items)

\* run: fetch_images has returned; without items the summary is saved and
\* run returns, otherwise the download loop starts
StartDownloads ==
    /\ pc = "fetched"
    /\ IF all_items = <<>>
       THEN pc' = "done" /\ config_file' = Some(stats)
       ELSE pc' = "loop" /\ config_file' = config_file
    /\ UNCHANGED <<sideVars, events, config, feed, loaded_ids, run, downloaded_ids, stats, fetchVars, idx, outcomes,
                   transfers, faults, ledger_file, media_files, meta_files, hist>>

\* the loop breaks because both targets are reached
LoopBreak ==
    /\ InLoop
    /\ BothTargetsMet
    /\ pc' = "final"
    /\ UNCHANGED <<sideVars, events, config, feed, loaded_ids, run, downloaded_ids, stats, fetchVars, idx, outcomes,
                   transfers, faults, diskVars, hist>>

\* the loop ends because the items are exhausted
LoopExhaustedRefetch ==
    /\ pc = "loop"
    /\ idx > Len(all_items)
    /\ pc' = "fetch"
    /\ UNCHANGED <<sideVars, events, config, feed, loaded_ids, run, downloaded_ids, stats, fetchVars, idx, outcomes,
                   transfers, faults, diskVars, hist>>

LoopExhausted ==
    /\ pc = "loop"
    /\ idx > Len(all_items)
    /\ pc' = "final"
    /\ UNCHANGED <<sideVars, events, config, feed, loaded_ids, run, downloaded_ids, stats, fetchVars, idx, outcomes,
                   transfers, faults, diskVars, hist>>

\* the item's kind has reached its target: count the skip and continue
LoopQuotaSkip ==
    /\ InLoop
    /\ ~BothTargetsMet
    /\ GetD(item, "url", Some(<<>>)) # None
    /\ QuotaMet(item)
    /\ stats' = IF RunIsVideo(item)
                THEN [stats EXCEPT !.videos_skipped = @ + 1]
                ELSE [stats EXCEPT !.images_skipped = @ + 1]
    /\ outcomes' = Append(outcomes, "SkippedQuotaMet")
    /\ idx' = idx + 1
    /\ UNCHANGED <<sideVars, events, config, feed, loaded_ids, pc, run, downloaded_ids, fetchVars, transfers, faults,
                   diskVars, hist>>

\* download_media is called for the item
CallsDownload ==
    /\ InLoop
    /\ ~BothTargetsMet
    /\ GetD(item, "url", Some(<<>>)) # None
    /\ ~QuotaMet(item)

\* download_media returns None at once: the id is in the ledger
LoopAlreadyHave ==
    /\ CallsDownload
    /\ ~Malformed(item)
    /\ AlreadyHave(item)
    /\ outcomes' = Append(outcomes, "SkippedAlreadyHave")
    /\ AfterDownload(downloaded_ids, stats)
    /\ UNCHANGED <<sideVars, events, config, feed, loaded_ids, run, downloaded_ids, stats, fetchVars, transfers, faults,
                   media_files, meta_files, hist>>

\* download_media returns None at once: the url or the id is missing, null,
\* empty or 0
LoopMalformedCounted ==
    /\ CallsDownload
    /\ Malformed(item)
    /\ outcomes' = Append(outcomes, "SkippedMalformed")
    /\ stats' = (IF RunIsVideo(item)
                 THEN [stats EXCEPT !.videos_skipped = @ + 1]
                 ELSE [stats EXCEPT !.images_skipped = @ + 1])
    /\ AfterDownload(downloaded_ids, stats')
    /\ UNCHANGED <<sideVars, events, config, feed, loaded_ids, run, downloaded_ids, fetchVars, transfers, faults,
                   media_files, meta_files, hist>>

LoopMalformed ==
    /\ CallsDownload
    /\ Malformed(item)
    /\ outcomes' = Append(outcomes, "SkippedMalformed")
    /\ AfterDownload(downloaded_ids, stats)
    /\ UNCHANGED <<sideVars, events, config, feed, loaded_ids, run, downloaded_ids, stats, fetchVars, transfers, faults,
                   media_files, meta_files, hist>>

\* run: item.get("url", "") is None for "url": null, and _is_video calls
\* url.lower() on it: AttributeError, raised outside any try, leaves run
LoopClassifyRaises ==
    /\ InLoop
    /\ ~BothTargetsMet
    /\ GetD(item, "url", Some(<<>>)) = None
    /\ pc' = "raised_in_loop"
    /\ UNCHANGED <<sideVars, events, config, feed, loaded_ids, run, downloaded_ids, stats, fetchVars, idx, outcomes,
                   transfers, faults, diskVars, hist>>

\* download_media fails: the GET raises ("get"), the stream breaks after the
\* file was opened ("stream"), or the metadata file cannot be opened after
\* the bytes were written ("meta_open"); the except clauses count an error
LoopDownloadFailedRecorded(stage) ==
    /\ CallsDownload
    /\ ~Malformed(item)
    /\ ~AlreadyHave(item)
    /\ faults < MaxFaults
    /\ faults' = faults + 1
    /\ transfers' = Append(transfers, [id |-> Str(item.id[1]), ok |-> stage = "meta_open"])
    /\ media_files' = IF stage = "get" THEN media_files
                      ELSE media_files \cup {DestPath(item)}
    /\ downloaded_ids' = downloaded_ids \cup {Str(item.id[1])}
    /\ stats' = [stats EXCEPT !.errors = @ + 1]
    /\ outcomes' = Append(outcomes, "Failed")
    /\ AfterDownload(downloaded_ids', stats')
    /\ UNCHANGED <<sideVars, events, config, feed, loaded_ids, run, fetchVars, meta_files, hist>>

LoopDownloadFailedTwice(stage) ==
    /\ CallsDownload
    /\ ~Malformed(item)
    /\ ~AlreadyHave(item)
    /\ faults < MaxFaults
    /\ faults' = faults + 1
    /\ transfers' = transfers \o <<[id |-> Str(item.id[1]), ok |-> FALSE],
                                   [id |-> Str(item.id[1]), ok |-> stage = "meta_open"]>>
    /\ media_files' = IF stage = "get" THEN media_files
                      ELSE media_files \cup {DestPath(item)}
    /\ stats' = [stats EXCEPT !.errors = @ + 1]
    /\ outcomes' = Append(outcomes, "Failed")
    /\ AfterDownload(downloaded_ids, stats')
    /\ UNCHANGED <<sideVars, events, config, feed, loaded_ids, run, downloaded_ids, fetchVars, meta_files, hist>>

LoopDownloadFailed(stage) ==
    /\ CallsDownload
    /\ ~Malformed(item)
    /\ ~AlreadyHave(item)
    /\ faults < MaxFaults
    /\ faults' = faults + 1
    /\ transfers' = Append(transfers, [id |-> Str(item.id[1]), ok |-> stage = "meta_open"])
    /\ media_files' = IF stage = "get" THEN media_files
                      ELSE media_files \cup {DestPath(item)}
    /\ stats' = [stats EXCEPT !.errors = @ + 1]
    /\ outcomes' = Append(outcomes, "Failed")
    /\ AfterDownload(downloaded_ids, stats')
    /\ UNCHANGED <<sideVars, events, config, feed, loaded_ids, run, downloaded_ids, fetchVars, meta_files, hist>>

\* download_media succeeds: bytes written, metadata file written (meta_ok)
\* or left truncated by a serialization error, the id added to the ledger,
\* the kind's counter incremented
LoopDownloaded(meta_ok) ==
    /\ CallsDownload
    /\ ~Malformed(item)
    /\ ~AlreadyHave(item)
    /\ meta_ok \/ faults < MaxFaults
    /\ faults' = IF meta_ok THEN faults ELSE faults + 1
    /\ transfers' = Append(transfers, [id |-> Str(item.id[1]), ok |-> TRUE])
    /\ media_files' = media_files \cup {DestPath(item)}
    /\ meta_files' = WriteMeta(meta_files, MetaPath(item), meta_ok)
    /\ downloaded_ids' = LedgerAdd(downloaded_ids, item)
    /\ stats' = CountDownloaded(stats, item)
    /\ outcomes' = Append(outcomes, "Downloaded")
    /\ AfterDownload(downloaded_ids', stats')
    /\ events' = events \o <<"downloaded", "sleep 0.5">>
    /\ UNCHANGED <<sideVars, config, feed, loaded_ids, run, fetchVars, hist>>

\* run: the final save of the ledger and of the summary; run returns
FinalSaveSummaryOnly ==
    /\ pc = "final"
    /\ config_file' = Some(stats)
    /\ pc' = "done"
    /\ UNCHANGED <<sideVars, events, config, feed, loaded_ids, run, downloaded_ids, stats, fetchVars, idx, outcomes,
                   transfers, faults, ledger_file, media_files, meta_files, hist>>

FinalSave ==
    /\ pc = "final"
    /\ ledger_file' = _save_downloaded_ids(downloaded_ids)
    /\ config_file' = Some(stats)
    /\ pc' = "done"
    /\ UNCHANGED <<sideVars, events, config, feed, loaded_ids, run, downloaded_ids, stats, fetchVars, idx, outcomes,
                   transfers, faults, media_files, meta_files, hist>>

(* -------------------------- kill and restart --------------------------- *)
Running == pc \in {"fetch", "fetched", "loop", "final"}

\* the process is killed: memory is lost, the files stay as they are
Crash ==
    /\ Running
    /\ pc' = "crashed"
    /\ UNCHANGED <<sideVars, events, config, feed, loaded_ids, run, downloaded_ids, stats, fetchVars, idx, outcomes,
                   transfers, faults, diskVars, hist>>

\* the process is killed inside the final _save_downloaded_ids, after the
\* file was opened for writing
CrashInSave ==
    /\ pc = "final"
    /\ pc' = "crashed"
    /\ ledger_file' = Truncated
    /\ UNCHANGED <<sideVars, events, config, feed, loaded_ids, run, downloaded_ids, stats, fetchVars, idx, outcomes,
                   transfers, faults, config_file, media_files, meta_files, hist>>

\* ids whose download succeeded in the current run
Succeeded ==
    {Str(all_items[k].id[1]) : k \in {k \in DOMAIN outcomes : outcomes[k] = "Downloaded"}}

\* what is remembered of a run that has ended: how it ended, the ledger it
\* loaded, its in-memory ledger at the end, the ids it downloaded and the
\* number of items its loop processed
RunRecord ==
    [ended |-> pc, loaded |-> loaded_ids, ledger |-> downloaded_ids,
     got |-> Succeeded, processed |-> idx - 1]

\* __init__ again with the same configuration name while the ledger file is
\* not a JSON document: json.load raises and the process ends
RestartFails ==
    /\ pc \in {"done", "crashed"}
    /\ run < MaxRuns
    /\ ledger_file = Truncated
    /\ hist' = Append(hist, RunRecord)
    /\ run' = run + 1
    /\ pc' = "init_failed"
    /\ UNCHANGED <<sideVars, events, config, feed, loaded_ids, downloaded_ids, stats, fetchVars, idx, outcomes,
                   transfers, faults, diskVars>>

\* __init__ and run again with the same configuration name: the ledger is
\* loaded from its file, everything else starts afresh
Restart ==
    /\ pc \in {"done", "crashed"}
    /\ run < MaxRuns
    /\ ledger_file # Truncated
    /\ hist' = Append(hist, RunRecord)
    /\ run' = run + 1
    /\ pc' = "fetch"
    /\ downloaded_ids' = _load_downloaded_ids(ledger_file)
    /\ stats' = ZeroStats
    /\ all_items' = <<>>
    /\ next_cursor' = None
    /\ request_count' = 0
    /\ consecutive_low_votes' = 0
    /\ stop_reason' = "Fetching"
    /\ sent' = <<>>
    /\ last_meta' = <<>>
    /\ last_page' = <<>>
    /\ last_good' = 0
    /\ loaded_ids' = downloaded_ids'
    /\ idx' = 1
    /\ outcomes' = <<>>
    /\ transfers' = <<>>
    /\ faults' = 0
    /\ events' = <<>>
    /\ UNCHANGED <<sideVars, config, feed, diskVars>>

(* ------------------------------ whole runs ----------------------------- *)
\* the files a first run can find: none, or those an earlier completed run
\* with this configuration name left after downloading ItemVid
InitialDisks ==
    { [ledger_file |-> None, media_files |-> {}, meta_files |-> <<>>],
      [ledger_file |-> Some({Str(ItemVid.id[1])}), media_files |-> {DestPath(ItemVid)},
       meta_files |-> WriteMeta(<<>>, MetaPath(ItemVid), TRUE)] }

Init ==
    /\ config \in [target_images : 0..MaxTarget, target_videos : 0..MaxTarget,
                    min_votes : {2}, max_pages : 1..MaxRunPages]
    /\ feed = PagePool
    /\ pc = "fetch"
    /\ run = 1
    /\ \E disk \in InitialDisks :
          /\ ledger_file = disk.ledger_file
          /\ media_files = disk.media_files
          /\ meta_files = disk.meta_files
    /\ downloaded_ids = _load_downloaded_ids(ledger_file)
    /\ stats = ZeroStats
    /\ all_items = <<>>
    /\ next_cursor = None
    /\ request_count = 0
    /\ consecutive_low_votes = 0
    /\ stop_reason = "Fetching"
    /\ sent = <<>>
    /\ last_meta = <<>>
    /\ last_page = <<>>
    /\ last_good = 0
    /\ loaded_ids = downloaded_ids
    /\ idx = 1
    /\ outcomes = <<>>
    /\ transfers = <<>>
    /\ faults = 0
    /\ config_file = None
    /\ hist = <<>>
    /\ events = <<>>
    /\ pending = {}
    /\ listing = <<>>
    /\ arg = <<>>
    /\ res = <<>>

LoopStep ==
    \/ LoopBreak
    \/ LoopExhausted
    \/ LoopQuotaSkip
    \/ LoopClassifyRaises
    \/ LoopMalformed
    \/ LoopAlreadyHave
    \/ \E stage \in {"get", "stream", "meta_open"} : LoopDownloadFailed(stage)
    \/ \E meta_ok \in BOOLEAN : LoopDownloaded(meta_ok)

\* one run of the scraper, from __init__ to the return of run
Next ==
    \/ FetchStep
    \/ FetchReturn
    \/ StartDownloads
    \/ LoopStep
    \/ FinalSave

Spec == Init /\ [][Next]_vars

\* run is sequential code whose requests return or raise (timeouts of 30 s
\* and 60 s): it keeps taking steps while it has one to take
SpecFair == Init /\ [][Next]_vars /\ WF_vars(Next)

\* one run against a feed of long pages
InitLong ==
    /\ config \in [target_images : 0..MaxTarget, target_videos : 0..MaxTarget,
                    min_votes : {2}, max_pages : {1}]
    /\ feed = LongPages
    /\ pc = "fetch"
    /\ run = 1
    /\ \E disk \in InitialDisks :
          /\ ledger_file = disk.ledger_file
          /\ media_files = disk.media_files
          /\ meta_files = disk.meta_files
    /\ downloaded_ids = _load_downloaded_ids(ledger_file)
    /\ stats = ZeroStats
    /\ all_items = <<>>
    /\ next_cursor = None
    /\ request_count = 0
    /\ consecutive_low_votes = 0
    /\ stop_reason = "Fetching"
    /\ sent = <<>>
    /\ last_meta = <<>>
    /\ last_page = <<>>
    /\ last_good = 0
    /\ loaded_ids = downloaded_ids
    /\ idx = 1
    /\ outcomes = <<>>
    /\ transfers = <<>>
    /\ faults = 0
    /\ config_file = None
    /\ hist = <<>>
    /\ events = <<>>
    /\ pending = {}
    /\ listing = <<>>
    /\ arg = <<>>
    /\ res = <<>>

SpecLong == InitLong /\ [][Next]_vars

\* runs that can be killed, and their restarts with the same configuration name
NextRestart ==
    \/ Next
    \/ Crash
    \/ CrashInSave
    \/ Restart
    \/ RestartFails

SpecRestart == Init /\ [][NextRestart]_vars

(* ============================ properties =============================== *)
\* the run before the current one
prev == hist[Len(hist)]

\* str(id) of the k-th fetched item
IdOf(k) ==
    LET id == Get(all_items[k], "id")
    IN IF id = None THEN "None" ELSE Str(id[1])

\* the kind of an item as the loop sees it: an item without a "url" key
\* is classified by the empty URL, one with a null URL is not classified
KindIsVideo(it) ==
    LET url == GetD(it, "url", Some(<<>>))
    IN url # None /\ _is_video(url[1], it)

\* the item's kind has reached its target in the current state
KindFull(it) ==
    IF KindIsVideo(it)
    THEN stats.videos_downloaded >= config.target_videos
    ELSE stats.images_downloaded >= config.target_images

\* downloads of the k-th item's kind that the loop completed before item k
DownloadedBefore(k) ==
    Cardinality({j \in 1..(k - 1) : /\ outcomes[j] = "Downloaded"
                                    /\ KindIsVideo(all_items[j]) = KindIsVideo(all_items[k])})

TargetOf(it) == IF KindIsVideo(it) THEN config.target_videos ELSE config.target_images

\* a loop iteration that processes the current item is about to run
AtItem == pc = "loop" /\ idx <= Len(all_items)

\* the step leaves transfers, media and metadata files and the ledger alone
NoDownloadEffect ==
    /\ transfers' = transfers
    /\ media_files' = media_files
    /\ meta_files' = meta_files
    /\ downloaded_ids' = downloaded_ids

SkipCounted(it) ==
    IF KindIsVideo(it)
    THEN stats' = [stats EXCEPT !.videos_skipped = @ + 1]
    ELSE stats' = [stats EXCEPT !.images_skipped = @ + 1]

C2_Original ==
    (run > 1 /\ prev.ended = "done" /\ pc # "init_failed") =>
        /\ \A j \in DOMAIN transfers : transfers[j].id \notin prev.got
        /\ \A k \in DOMAIN outcomes : IdOf(k) \in prev.got =>
              /\ outcomes[k] = "SkippedAlreadyHave"
              /\ Cardinality({f \in media_files : f.stem = "civitai_" \o IdOf(k)}) = 1
              /\ Cardinality({n \in DOMAIN meta_files : n = "civitai_" \o IdOf(k) \o ".json"}) = 1

\* C2 amended: after a completed first run, the second run transfers
\* nothing and writes no metadata for an item the first run downloaded; it
\* reports the item as SkippedAlreadyHave unless the item's kind has already
\* reached its target in the second run, where the quota check comes first
\* and the item is SkippedQuotaMet; one media file and one metadata file
\* exist for its id.
C2_DedupAcrossRuns ==
    (run > 1 /\ prev.ended = "done" /\ pc # "init_failed") =>
        /\ \A j \in DOMAIN transfers : transfers[j].id \notin prev.got
        /\ \A k \in DOMAIN outcomes : IdOf(k) \in prev.got =>
              /\ outcomes[k] = IF DownloadedBefore(k) >= TargetOf(all_items[k])
                               THEN "SkippedQuotaMet" ELSE "SkippedAlreadyHave"
              /\ Cardinality({f \in media_files : f.stem = "civitai_" \o IdOf(k)}) = 1
              /\ Cardinality({n \in DOMAIN meta_files : n = "civitai_" \o IdOf(k) \o ".json"}) = 1

\* the second run has skipped, as already had, an item the first downloaded
C2_Witness ==
    /\ run > 1
    /\ prev.ended = "done"
    /\ pc = "done"
    /\ \E k \in DOMAIN outcomes : IdOf(k) \in prev.got /\ outcomes[k] = "SkippedAlreadyHave"

\* C3 as stated: every item the loop processes whose id is in the ledger is
\* SkippedAlreadyHave: nothing transferred or written, the ledger and every
\* RunStats counter unchanged, whatever the state of the quotas.
C3_Original ==
    [][(AtItem /\ idx' = idx + 1 /\ IdOf(idx) \in downloaded_ids) =>
          /\ outcomes' = Append(outcomes, "SkippedAlreadyHave")
          /\ NoDownloadEffect
          /\ stats' = stats]_vars

\* C3 amended: an item the loop processes whose id is in the ledger causes
\* no transfer, no file write and no ledger change; when its kind's quota
\* is not met it is SkippedAlreadyHave and no RunStats counter changes, and
\* when its kind's quota is met the quota check comes first: it is
\* SkippedQuotaMet and the kind's skip counter is incremented.
C3_LedgerCheckOrder ==
    [][(AtItem /\ idx' = idx + 1 /\ IdOf(idx) \in downloaded_ids) =>
          /\ NoDownloadEffect
          /\ IF KindFull(all_items[idx])
             THEN outcomes' = Append(outcomes, "SkippedQuotaMet") /\ SkipCounted(all_items[idx])
             ELSE outcomes' = Append(outcomes, "SkippedAlreadyHave") /\ stats' = stats]_vars

\* the loop has met an item of the loaded ledger and skipped it as already had
C3_Witness ==
    \E k \in DOMAIN outcomes : IdOf(k) \in loaded_ids /\ outcomes[k] = "SkippedAlreadyHave"

\* C4: once a kind's downloaded counter has reached its target, an item of
\* that kind is never transferred, written or checked against the ledger;
\* the loop iteration that processes it only increments the kind's skip
\* counter, and the break on both targets changes nothing.
C4_QuotaEnforcement ==
    [][(AtItem /\ KindFull(all_items[idx])) =>
          /\ NoDownloadEffect
          /\ idx' = idx + 1 =>
                outcomes' = Append(outcomes, "SkippedQuotaMet") /\ SkipCounted(all_items[idx])
          /\ idx' = idx => stats' = stats /\ outcomes' = outcomes]_vars

\* a kind with a positive target was filled by downloads and a later item
\* of that kind was skipped
C4_Witness ==
    \E k \in DOMAIN outcomes :
        /\ outcomes[k] = "SkippedQuotaMet"
        /\ TargetOf(all_items[k]) >= 1
        /\ DownloadedBefore(k) = TargetOf(all_items[k])

\* C5: images_downloaded <= target_images and videos_downloaded <=
\* target_videos in every reachable state.
C5_QuotaInvariant ==
    /\ stats.images_downloaded <= config.target_images
    /\ stats.videos_downloaded <= config.target_videos

\* a full image quota with a further image item next in the loop
C5_Witness ==
    /\ AtItem
    /\ config.target_images >= 1
    /\ stats.images_downloaded = config.target_images
    /\ stats.videos_downloaded < config.target_videos
    /\ ~KindIsVideo(all_items[idx])

\* the items of a page that pass the filter, whatever the ledger holds
Passing(items) == SelectSeq(items, LAMBDA it : total_reactions(it) >= config.min_votes)

\* the last n elements of a sequence
LastN(q, n) == SubSeq(q, Len(q) - n + 1, Len(q))

\* a response carries a next cursor
HasNextCursor(meta) == "nextCursor" \in DOMAIN meta

\* C6 as stated: an item whose id is in the ledger is not appended to the
\* accumulated result of the fetch.
C6_Original == \A k \in DOMAIN all_items : IdOf(k) \notin downloaded_ids

\* C6 amended: the ledger gates the download stage only. The fetcher
\* appends every item of a page that passes the filter, an item whose id is
\* in the ledger included, and counts it toward the target early-stop.
C6_LedgerGatesDownloadOnly ==
    /\ request_count >= 1 =>
          /\ Len(all_items) >= Len(Passing(last_page))
          /\ LastN(all_items, Len(Passing(last_page))) = Passing(last_page)
    /\ (request_count >= 1 /\ Len(all_items) >= target_total) => stop_reason = "TargetReached"

\* the fetch reached its target only by counting an item of the ledger
C6_Witness ==
    /\ stop_reason = "TargetReached"
    /\ Len(all_items) = target_total
    /\ \E k \in DOMAIN all_items : IdOf(k) \in downloaded_ids

\* C7: when, after a page, the accumulated items number at least
\* target_images + target_videos, the fetcher stops for TargetReached at
\* once and issues no further listing request.
C7_TargetEarlyStop ==
    [][/\ (pc = "fetch" /\ request_count' = request_count + 1
           /\ Len(all_items') >= target_total) => stop_reason' = "TargetReached"
       /\ stop_reason = "TargetReached" => sent' = sent /\ request_count' = request_count]_vars

\* the target is reached on page 3, below the ceiling, with a next cursor
C7_Witness ==
    /\ pc = "fetched"
    /\ stop_reason = "TargetReached"
    /\ request_count = 3
    /\ request_count < config.max_pages
    /\ HasNextCursor(last_meta)

\* C8: the counter counts the consecutive pages with fewer than 10% of
\* their items passing; on the 5th such page in a row (target not reached)
\* the fetcher stops for LowYield, not before, and sends no 6th request.
C8_LowYieldEarlyStop ==
    [][/\ request_count' = request_count + 1 =>
             /\ consecutive_low_votes' =
                   IF 10 * Len(Passing(last_page')) < Len(last_page')
                   THEN consecutive_low_votes + 1 ELSE 0
             /\ (consecutive_low_votes' = 5 /\ Len(all_items') < target_total)
                   => stop_reason' = "LowYield"
             /\ consecutive_low_votes' < 5 => stop_reason' # "LowYield"
             /\ consecutive_low_votes' <= 5
       /\ stop_reason = "LowYield" => sent' = sent /\ request_count' = request_count]_vars

\* five low-yield pages in a row stopped the fetch below the ceiling, with
\* a next cursor in hand
C8_Witness ==
    /\ pc = "fetched"
    /\ stop_reason = "LowYield"
    /\ request_count = 5
    /\ request_count < config.max_pages
    /\ HasNextCursor(last_meta)

\* C9: the first listing request carries no cursor and the r-th carries the
\* next-page token of response r-1 (the endpoint's token for the page after
\* its r-1st response is r-1), so no page is requested twice.
C9_CursorFollowing ==
    \A r \in DOMAIN sent : sent[r] = IF r = 1 THEN None ELSE Some(r - 1)

\* C10: the fetch phase issues at most max_pages listing requests and
\* terminates, whatever the endpoint returns.
C10_PageCeiling ==
    /\ [](Len(sent) <= config.max_pages)
    /\ <>(pc = "fetched")

\* an endpoint that always had a next cursor was stopped by the ceiling
C10_Witness ==
    /\ pc = "fetched"
    /\ stop_reason = "Fetching"
    /\ request_count = config.max_pages
    /\ config.max_pages = MaxPages
    /\ HasNextCursor(last_meta)

\* the sum of the four reaction counts of an item, a count that the item
\* does not carry being 0
ReactionSum(it) ==
    LET st == IF "stats" \in DOMAIN it THEN it.stats ELSE <<>>
        count(key) == IF key \in DOMAIN st THEN st[key] ELSE 0
    IN count("likeCount") + count("heartCount") + count("laughCount") + count("cryCount")

\* C11: a listed item is in the fetch result iff its reaction sum is at
\* least min_votes; the result keeps page order and the order within each
\* page, and the download loop works on exactly that result, so every item
\* it sees has a reaction sum of at least min_votes.
C11_FetchFilter ==
    /\ [](\A k \in DOMAIN all_items : ReactionSum(all_items[k]) >= config.min_votes)
    /\ [][request_count' = request_count + 1 =>
             all_items' = all_items \o SelectSeq(last_page',
                              LAMBDA it : ReactionSum(it) >= config.min_votes)]_vars
    /\ [][request_count' = request_count => all_items' = all_items]_vars

\* the loop works on the items of two pages in feed order: an item whose
\* sum is exactly min_votes was kept, one without counts was dropped
C11_Witness ==
    /\ pc = "loop"
    /\ last_page = <<ItemImg2, ItemNoStats, ItemVid>>
    /\ all_items = <<ItemImg, ItemImg2, ItemVid>>
    /\ ReactionSum(ItemImg2) = config.min_votes

\* C12: a listing request that fails adds one to the error counter and
\* leaves the accumulated items as they are; after it no listing request is
\* sent, neither for that page nor for another, and the accumulated items,
\* when there are any, go to the download loop unchanged.
C12_ListingTransportError ==
    /\ [][(sent' # sent /\ request_count' = request_count) =>
             /\ stats' = [stats EXCEPT !.errors = @ + 1]
             /\ all_items' = all_items]_vars
    /\ [][Len(sent) > request_count => (sent' = sent /\ all_items' = all_items)]_vars
    /\ [][(pc = "fetched" /\ all_items # <<>>) => pc' = "loop"]_vars

\* the second listing request failed and an item of the first page was
\* downloaded afterwards
C12_Witness ==
    /\ pc = "done"
    /\ request_count = 1
    /\ Len(sent) = 2
    /\ stats.errors = 1
    /\ Succeeded # {}

TargetsReached ==
    /\ stats.images_downloaded >= config.target_images
    /\ stats.videos_downloaded >= config.target_videos

\* C14: whatever goes wrong with the item a loop iteration works on (failed
\* transfer, failed file write, missing or null id or url), the iteration
\* is followed by the next item or by the end of the loop, never by the end
\* of the run without its final saves.
C14_ErrorIsolation == [][AtItem => pc' \in {"loop", "final"}]_vars

\* C15: a periodic save of the ledger or of the summary that fails does not
\* end the run: the checkpoint iteration is never left by the exception of
\* a save.
C15_CheckpointNonFatal ==
    [][(AtItem /\ idx % CheckpointEvery = 0) => pc' # "raised_in_save"]_vars

\* C16: when run has returned, the ledger in the ledger file (empty when
\* there is no file) is the in-memory ledger and the summary file carries
\* the final RunStats, whether the loop ended by exhausting the items, by
\* the break on both targets, or never started for want of items.
C16_FinalFlush ==
    pc = "done" =>
        /\ (IF ledger_file = None THEN {} ELSE ledger_file[1]) = downloaded_ids
        /\ config_file = Some(stats)

\* the break on both targets ended the loop before the last item, after a
\* download, and the saved ledger holds the downloaded id
C16_Witness ==
    /\ pc = "done"
    /\ idx <= Len(all_items)
    /\ Succeeded # {}
    /\ Succeeded \subseteq ledger_file[1]
    /\ ~(Succeeded \subseteq loaded_ids)

\* C17: every run ends by returning from run with the summary written.
C17_AlwaysSummary == <>(pc = "done" /\ config_file # None)

\* C18: at a loop iteration that finds both targets reached the loop
\* breaks: the item at hand and those after it are not classified, not
\* checked against the ledger, not transferred, and no counter changes,
\* then or at any later point of the run.
C18_EarlyTermination ==
    /\ [][(AtItem /\ TargetsReached) =>
             /\ pc' = "final"
             /\ idx' = idx
             /\ stats' = stats
             /\ outcomes' = outcomes
             /\ NoDownloadEffect]_vars
    /\ [][(pc = "final" \/ pc = "done") =>
             (idx' = idx /\ stats' = stats /\ outcomes' = outcomes /\ NoDownloadEffect)]_vars

\* a download filled the last open quota and the run returned with an item
\* left that was not in the ledger and had no outcome
C18_Witness ==
    /\ pc = "done"
    /\ idx > 1
    /\ idx <= Len(all_items)
    /\ Len(outcomes) = idx - 1
    /\ outcomes[idx - 1] = "Downloaded"
    /\ IdOf(idx) \notin downloaded_ids
    /\ stats.images_skipped + stats.videos_skipped = 0

\* an item download_media can work on: url and id present and truthy
WellFormed(it) ==
    /\ "url" \in DOMAIN it /\ it.url # None /\ it.url[1] # <<>>
    /\ "id" \in DOMAIN it /\ it.id # None /\ it.id[1] # 0

\* the well-formed items of the fetched sequence of one kind
ItemsOfKind(video) ==
    {k \in DOMAIN all_items : WellFormed(all_items[k]) /\ KindIsVideo(all_items[k]) = video}

\* the fetched sequence can fill both quotas: enough well-formed items of
\* each kind, ids distinct and none in the ledger the run loaded
CanFillQuotas ==
    /\ Cardinality(ItemsOfKind(FALSE)) >= config.target_images
    /\ Cardinality(ItemsOfKind(TRUE)) >= config.target_videos
    /\ \A j \in DOMAIN all_items : \A k \in DOMAIN all_items : j # k => IdOf(j) # IdOf(k)
    /\ \A k \in DOMAIN all_items : IdOf(k) \notin loaded_ids

\* C19: a run that returns, whose fetched sequence can fill both quotas and
\* in which no download failed, ends with images_downloaded = target_images
\* and videos_downloaded = target_videos.
C19_QuotaFill ==
    (pc = "done" /\ CanFillQuotas /\ \A k \in DOMAIN outcomes : outcomes[k] # "Failed") =>
        /\ stats.images_downloaded = config.target_images
        /\ stats.videos_downloaded = config.target_videos

\* both quotas of 1 were filled from three items, the second image skipped
C19_Witness ==
    /\ pc = "done"
    /\ CanFillQuotas
    /\ config.target_images = 1
    /\ config.target_videos = 1
    /\ outcomes = <<"Downloaded", "SkippedQuotaMet", "Downloaded">>
    /\ stats.images_downloaded = 1
    /\ stats.videos_downloaded = 1

\* C20: the url the loop passes to the classifier for the item it works on
\* is a string, so that the classification yields Image or Video without
\* error, and every fetched item whose url ends in .mp4 in any letter case
\* is Video whatever its metadata.
C20_ClassifierTotal ==
    /\ (AtItem /\ ~TargetsReached) => GetD(all_items[idx], "url", Some(<<>>)) # None
    /\ \A k \in DOMAIN all_items :
          LET url == Get(all_items[k], "url")
          IN (url # None /\ EndsWith(Lower(url[1]), <<".", "m", "p", "4">>))
                => _is_video(url[1], all_items[k])

(* ---------------------- viewer: get_civitai_items ---------------------- *)
\* the items whose files the viewer's directories can hold
ViewItems == {ItemImg, ItemVid}

\* the ledger of a configuration named civitai_...: it lies in the metadata
\* directory and its name matches the pattern civitai_*.json
LedgerName == "civitai_imgs_downloaded_ids.json"

\* a second media file of ItemImg's id, in the other directory
StrayVideo == [dir |-> "videos", stem |-> "civitai_" \o Str(ItemImg.id[1]),
               ext |-> <<".", "m", "p", "4">>]

\* metadata_dir.glob('civitai_*.json')
GlobMetadata == DOMAIN meta_files \cup (IF ledger_file # None THEN {LedgerName} ELSE {})

\* json.load(f) returns: the file holds a whole JSON document
JsonLoadsAlways(name) == TRUE

JsonLoads(name) ==
    IF name = LedgerName THEN ledger_file # Truncated ELSE meta_files[name]

\* data.get('id') is defined: the document is an object (the ledger is a list)
IsObject(name) == name # LedgerName

\* the item whose dump the metadata file holds
ItemOfMeta(name) == CHOOSE it \in ViewItems : MetaPath(it) = name

\* images_dir.glob(f'civitai_{item_id}.*'), videos_dir.glob(...)
GlobMedia(dir, item_id) ==
    {f \in media_files : f.dir = dir /\ f.stem = "civitai_" \o Str(item_id)}

\* one pass of the for loop over json_file
ViewerVisit(json_file) ==
    /\ pc = "viewer_loop"
    /\ json_file \in pending
    /\ pending' = pending \ {json_file}
    /\ IF ~JsonLoads(json_file) \/ ~IsObject(json_file)
       THEN listing' = listing       \* except Exception: print
       ELSE LET data == ItemOfMeta(json_file)
                item_id == data.id[1]
                image_files == GlobMedia("images", item_id)
                video_files == GlobMedia("videos", item_id)
            IN IF image_files # {}
               THEN \E f \in image_files :
                       listing' = Append(listing, [id |-> item_id, media_type |-> "image",
                                                   media_file |-> [stem |-> f.stem, ext |-> f.ext]])
               ELSE IF video_files # {}
               THEN \E f \in video_files :
                       listing' = Append(listing, [id |-> item_id, media_type |-> "video",
                                                   media_file |-> [stem |-> f.stem, ext |-> f.ext]])
               ELSE listing' = listing   \* continue
    /\ pc' = pc
    /\ UNCHANGED <<arg, res, events, config, feed, run, downloaded_ids, stats, fetchVars, loaded_ids, idx,
                   outcomes, transfers, faults, diskVars, hist>>

\* the loop is over: the listing is cached and returned
ViewerReturn ==
    /\ pc = "viewer_loop"
    /\ pending = {}
    /\ pc' = "viewer_done"
    /\ UNCHANGED <<sideVars, events, config, feed, run, downloaded_ids, stats, fetchVars, loaded_ids, idx,
                   outcomes, transfers, faults, diskVars, hist>>

\* the first listing request, over any content of the three directories
InitViewer ==
    /\ config = [target_images |-> 0, target_videos |-> 0, min_votes |-> 2, max_pages |-> 1]
    /\ feed = {}
    /\ pc = "viewer_loop"
    /\ run = 1
    /\ ledger_file \in {None, Some({Str(ItemImg.id[1])}), Truncated}
    /\ media_files \in SUBSET ({DestPath(it) : it \in ViewItems} \cup {StrayVideo})
    /\ \E present \in SUBSET ViewItems :
          meta_files \in [{MetaPath(it) : it \in present} -> BOOLEAN]
    /\ config_file = None
    /\ downloaded_ids = {}
    /\ stats = ZeroStats
    /\ all_items = <<>>
    /\ next_cursor = None
    /\ request_count = 0
    /\ consecutive_low_votes = 0
    /\ stop_reason = "Fetching"
    /\ sent = <<>>
    /\ last_meta = <<>>
    /\ last_page = <<>>
    /\ last_good = 0
    /\ loaded_ids = {}
    /\ idx = 1
    /\ outcomes = <<>>
    /\ transfers = <<>>
    /\ faults = 0
    /\ hist = <<>>
    /\ events = <<>>
    /\ pending = GlobMetadata
    /\ listing = <<>>
    /\ arg = <<>>
    /\ res = <<>>

NextViewer ==
    \/ \E json_file \in pending : ViewerVisit(json_file)
    \/ ViewerReturn

\* the handler is sequential code over a finite directory listing
SpecViewer == InitViewer /\ [][NextViewer]_vars /\ WF_vars(NextViewer)

\* the ids whose metadata file holds the item and that have a media file
Listable ==
    {it.id[1] : it \in {d \in ViewItems : /\ MetaPath(d) \in DOMAIN meta_files
                                          /\ meta_files[MetaPath(d)]
                                          /\ \E f \in media_files :
                                                f.stem = "civitai_" \o Str(d.id[1])}}

\* C21: the viewer's listing always returns, and it holds exactly once each
\* item whose metadata file is an item document and that has a media file,
\* each with a media file of its own id that exists; malformed metadata, the
\* non-item document and items without media are skipped.
C21_ViewerTolerance ==
    /\ <>(pc = "viewer_done")
    /\ [](pc = "viewer_done" =>
            /\ {listing[i].id : i \in DOMAIN listing} = Listable
            /\ Len(listing) = Cardinality(Listable)
            /\ \A i \in DOMAIN listing :
                  \E f \in media_files :
                     /\ f.stem = "civitai_" \o Str(listing[i].id)
                     /\ listing[i].media_file = [stem |-> f.stem, ext |-> f.ext]
                     /\ listing[i].media_type = (IF f.dir = "images" THEN "image" ELSE "video"))

\* ItemImg's metadata is malformed, ItemVid is listed, the truncated ledger
\* was visited too
C21_Witness ==
    /\ pc = "viewer_done"
    /\ ledger_file = Truncated
    /\ MetaPath(ItemImg) \in DOMAIN meta_files
    /\ ~meta_files[MetaPath(ItemImg)]
    /\ DestPath(ItemImg) \in media_files
    /\ MetaPath(ItemVid) \in DOMAIN meta_files
    /\ Len(listing) = 1
    /\ listing[1].id = ItemVid.id[1]

\* C22: each time the loop has processed an item whose ordinal is a multiple
\* of 50, whatever it did with the item, the persisted ledger reads back as
\* the in-memory ledger.
C22_LedgerCadence ==
    [][(AtItem /\ idx % CheckpointEvery = 0 /\ idx' = idx + 1)
          => (ledger_file' # Truncated /\ _load_downloaded_ids(ledger_file') = downloaded_ids')]_vars

\* C23 as stated: the summary has a cadence of its own, shorter than the
\* ledger's 50 items, so that a summary has been flushed by the time the loop
\* reaches the first ledger checkpoint.
C23_Original ==
    (pc = "loop" /\ idx = CheckpointEvery) => config_file # None

\* C23: in the download loop the summary is flushed only together with the
\* ledger: a step of the loop that writes the summary is the step of an
\* item whose ordinal is a multiple of 50, and it has written the in-memory
\* ledger and then the current statistics.
C23_SummaryCadence ==
    [][(pc = "loop" /\ config_file' # config_file)
          => /\ idx % CheckpointEvery = 0
             /\ idx' = idx + 1
             /\ ledger_file' = Some(downloaded_ids')
             /\ config_file' = Some(stats')]_vars

\* the loop is past item 50 and the checkpoint wrote both documents
C23_Witness ==
    /\ pc = "loop"
    /\ idx = CheckpointEvery + 1
    /\ config_file = Some(stats)
    /\ ledger_file = Some(downloaded_ids)
    /\ downloaded_ids # {}

\* ids of the previous run's completed downloads that this run has
\* transferred again with success
Redone ==
    {transfers[i].id : i \in {j \in DOMAIN transfers : transfers[j].ok}} \cap prev.got

\* C24 as stated: the run after a kill redoes at most one download of the
\* killed run.
C24_Original ==
    (run > 1 /\ prev.ended = "crashed") => Cardinality(Redone) <= 1

\* C24: the run after a kill redoes only downloads that the ledger file did
\* not hold at the kill, that is downloads the killed run completed after
\* its last ledger flush, and a redone download leaves one media file for
\* its id.
C24_CrashWindow ==
    (run > 1 /\ prev.ended = "crashed") =>
        \A id \in Redone :
           /\ id \notin loaded_ids
           /\ id \in prev.ledger \ prev.loaded
           /\ Cardinality({f \in media_files : f.stem = "civitai_" \o id}) = 1

\* the killed run had downloaded an image and a video without reaching a
\* ledger flush; the next run has downloaded both again
C24_Witness ==
    /\ run > 1
    /\ prev.ended = "crashed"
    /\ Cardinality(prev.got) = 2
    /\ Redone = prev.got
    /\ pc = "done"

\* the step has appended a byte transfer that succeeded
TransferredNow ==
    /\ Len(transfers') = Len(transfers) + 1
    /\ transfers'[Len(transfers')].ok

\* the step has added one to the downloaded counter of the item's kind
DownloadCounted(it) ==
    stats' = (IF KindIsVideo(it)
              THEN [stats EXCEPT !.videos_downloaded = @ + 1]
              ELSE [stats EXCEPT !.images_downloaded = @ + 1])

\* C25: after a successful byte transfer, whatever goes wrong with the
\* metadata file (it is left incomplete or it cannot be written at all),
\* the id is added to the ledger, the kind's downloaded counter is
\* incremented and the error counter is not.
C25_MetadataFailure ==
    [][(AtItem /\ TransferredNow
          /\ (MetaPath(all_items[idx]) \notin DOMAIN meta_files'
                \/ ~meta_files'[MetaPath(all_items[idx])]))
          => /\ IdOf(idx) \in downloaded_ids'
             /\ DownloadCounted(all_items[idx])]_vars

\* C26 as stated: a loop iteration on an item lacking id or url transfers
\* and writes nothing, leaves the ledger and every downloaded and skipped
\* counter as they were, and the loop does not come back to the item.
C26_Original ==
    [][(AtItem /\ ~WellFormed(all_items[idx])) =>
          /\ NoDownloadEffect
          /\ stats' = stats
          /\ idx' >= idx]_vars

\* C26: a loop iteration on an item lacking id or url transfers and writes
\* nothing, leaves the ledger, the downloaded counters and the error counter
\* as they were, and the loop does not come back to the item; the quota
\* check comes first, so when the item is processed while the quota of the
\* kind it is classified as is met, that kind's skip counter is incremented,
\* and otherwise no counter changes.
C26_MalformedRejected ==
    [][(AtItem /\ ~WellFormed(all_items[idx])) =>
          /\ NoDownloadEffect
          /\ idx' >= idx
          /\ IF idx' = idx + 1 /\ KindFull(all_items[idx])
             THEN SkipCounted(all_items[idx]) /\ outcomes'[idx] = "SkippedQuotaMet"
             ELSE stats' = stats]_vars

\* an item without id was met while the image quota was full and counted as
\* a skipped image
C26_Witness ==
    \E k \in DOMAIN outcomes :
       /\ ~WellFormed(all_items[k])
       /\ outcomes[k] = "SkippedQuotaMet"
       /\ stats.images_skipped >= 1
       /\ transfers = <<>>

\* a response's metadata carries a next cursor or a next page token
HasToken(meta) == "nextCursor" \in DOMAIN meta \/ "nextPage" \in DOMAIN meta

\* every listing request so far was answered, and the answer to the latest
\* leaves the target unreached, the low-yield counter below 5 and the
\* ceiling unreached
MayGoOn ==
    /\ pc = "fetch"
    /\ request_count >= 1
    /\ Len(sent) = request_count
    /\ Len(all_items) < target_total
    /\ consecutive_low_votes < LowYieldPages
    /\ request_count < config.max_pages

\* C27: after an answered request whose metadata carries neither a next
\* cursor nor a next page token no further listing request is issued; after
\* one that carries a token, with the target not reached, the low-yield
\* counter below 5 and the ceiling not reached, another request is issued:
\* the fetch does not stay in that state, and the step that leaves it is a
\* listing request.
C27_ExhaustedStop ==
    /\ [][(Len(sent) = request_count /\ request_count >= 1 /\ ~HasToken(last_meta))
             => sent' = sent]_vars
    /\ [][(MayGoOn /\ HasToken(last_meta)) => Len(sent') = Len(sent) + 1]_vars
    /\ (MayGoOn /\ HasToken(last_meta)) ~> ~(MayGoOn /\ HasToken(last_meta))

\* the second response carried a token under neither key: the fetch stopped
\* as exhausted, below its target and its ceiling
C27_Witness ==
    /\ pc = "fetched"
    /\ stop_reason = "Exhausted"
    /\ Len(sent) = 2
    /\ request_count = 2
    /\ ~HasToken(last_meta)
    /\ Len(all_items) < target_total
    /\ request_count < config.max_pages

(* --------------- the fetch phase over low-yield pages ------------------ *)
\* a fetch with a high ceiling and a target of two items, over an endpoint
\* that answers with a page without passing item, an empty page or a page
\* whose single item passes
InitLowYield ==
    /\ config = [target_images |-> MaxTarget, target_videos |-> MaxTarget,
                 min_votes |-> 2, max_pages |-> MaxLowPages]
    /\ feed = {<<ItemLow>>, <<>>, <<ItemImg>>}
    /\ pc = "fetch"
    /\ run = 1
    /\ ledger_file = None
    /\ media_files = {}
    /\ meta_files = <<>>
    /\ config_file = None
    /\ downloaded_ids = _load_downloaded_ids(ledger_file)
    /\ stats = ZeroStats
    /\ all_items = <<>>
    /\ next_cursor = None
    /\ request_count = 0
    /\ consecutive_low_votes = 0
    /\ stop_reason = "Fetching"
    /\ sent = <<>>
    /\ last_meta = <<>>
    /\ last_page = <<>>
    /\ last_good = 0
    /\ loaded_ids = downloaded_ids
    /\ idx = 1
    /\ outcomes = <<>>
    /\ transfers = <<>>
    /\ faults = 0
    /\ hist = <<>>
    /\ events = <<>>
    /\ pending = {}
    /\ listing = <<>>
    /\ arg = <<>>
    /\ res = <<>>

SpecLowYield == InitLowYield /\ [][NextFetch]_vars /\ WF_vars(NextFetch)

\* C28: the counter counts the low-yield pages answered since the latest
\* page that was not low-yield, which resets it to zero, so a stop for low
\* yield happens only when the 5 most recent pages were all low-yield.
C28_ConsecutiveCounter ==
    /\ consecutive_low_votes = request_count - last_good
    /\ stop_reason = "LowYield" => request_count - last_good >= LowYieldPages
    /\ (request_count >= 1 /\ last_good = request_count) => stop_reason # "LowYield"

\* four low-yield pages, a page whose item passes and four more low-yield
\* pages: the fetch has not stopped for low yield
C28_Witness ==
    /\ request_count = 9
    /\ last_good = 5
    /\ Len(all_items) = 1
    /\ consecutive_low_votes = 4
    /\ stop_reason = "Fetching"

(* --------------- the low-yield test applied on its own ----------------- *)
\* the test applied to k passing items of a page of n
ApplyLowYield ==
    /\ pc = "apply"
    /\ res' = LowYield(arg[1], arg[2])
    /\ pc' = "applied"
    /\ UNCHANGED <<pending, listing, arg, events, config, feed, run, downloaded_ids, stats, fetchVars,
                   loaded_ids, idx, outcomes, transfers, faults, diskVars, hist>>

\* any page the endpoint can answer with under the request's limit, with any
\* number of its items passing
InitLowYieldTest ==
    /\ config = [target_images |-> 0, target_videos |-> 0, min_votes |-> 2, max_pages |-> 1]
    /\ feed = {}
    /\ pc = "apply"
    /\ arg \in {a \in (0..PageLimit) \X (0..PageLimit) : a[1] <= a[2]}
    /\ res = <<>>
    /\ run = 1
    /\ ledger_file = None
    /\ media_files = {}
    /\ meta_files = <<>>
    /\ config_file = None
    /\ downloaded_ids = {}
    /\ stats = ZeroStats
    /\ all_items = <<>>
    /\ next_cursor = None
    /\ request_count = 0
    /\ consecutive_low_votes = 0
    /\ stop_reason = "Fetching"
    /\ sent = <<>>
    /\ last_meta = <<>>
    /\ last_page = <<>>
    /\ last_good = 0
    /\ loaded_ids = {}
    /\ idx = 1
    /\ outcomes = <<>>
    /\ transfers = <<>>
    /\ faults = 0
    /\ hist = <<>>
    /\ events = <<>>
    /\ pending = {}
    /\ listing = <<>>

SpecLowYieldTest == InitLowYieldTest /\ [][ApplyLowYield]_vars

\* C29: a page of n items of which k pass is counted low-yield iff
\* 10 * k < n; in particular not when exactly 10% pass and not when n = 0.
C29_LowYieldBoundary ==
    pc = "applied" =>
        /\ res = (10 * arg[1] < arg[2])
        /\ 10 * arg[1] = arg[2] => ~res

\* 20 of 200 pass: not low-yield
C29_Witness ==
    /\ pc = "applied"
    /\ arg = <<20, PageLimit>>
    /\ res = FALSE

\* C30: a run completes a successful byte transfer for an id at most once,
\* also when the id occurs several times among the fetched items, and never
\* for an id that was in the ledger when the run started.
C30_AtMostOnce ==
    /\ \A i, j \in DOMAIN transfers :
          (i < j /\ transfers[i].ok /\ transfers[j].ok) => transfers[i].id # transfers[j].id
    /\ \A i \in DOMAIN transfers : transfers[i].id \notin loaded_ids

\* the transfers of this run for an id, and the items with that id that the
\* loop has processed
TransfersOf(id) == {j \in DOMAIN transfers : transfers[j].id = id}

ProcessedWith(id) == {k \in DOMAIN outcomes : IdOf(k) = id}

\* C31 as stated: after a listing request has failed no listing request is
\* issued, and an id whose transfer failed gets no later transfer in the run.
C31_Original ==
    /\ [][stop_reason = "TransportError" => sent' = sent]_vars
    /\ [](\A i, j \in DOMAIN transfers :
             (i < j /\ ~transfers[i].ok) => transfers[j].id # transfers[i].id)

\* C31: after a listing request has failed no listing request is issued;
\* a loop iteration starts at most one transfer, so an id gets at most one
\* transfer per occurrence among the items the loop has processed - an id
\* whose transfer failed is transferred again only when a later item
\* carries the same id.
C31_NoRetry ==
    /\ [][stop_reason = "TransportError" => sent' = sent]_vars
    /\ [][AtItem => Len(transfers') <= Len(transfers) + 1]_vars
    /\ [](\A i \in DOMAIN transfers :
             Cardinality(TransfersOf(transfers[i].id))
                <= Cardinality(ProcessedWith(transfers[i].id)))

\* the transfer of an id failed, and the second item with that id was
\* downloaded
C31_Witness ==
    /\ Len(outcomes) >= 2
    /\ outcomes[1] = "Failed"
    /\ outcomes[2] = "Downloaded"
    /\ IdOf(1) = IdOf(2)
    /\ Len(transfers) = 2
    /\ ~transfers[1].ok

\* C32: a run has one fetch phase, which has stopped before the first
\* media transfer starts: once left it is not entered again, no listing
\* request follows a media transfer, and a step of the run issues at most
\* one network request, which has returned or raised when the step ends.
C32_PhaseOrdering ==
    /\ [](transfers # <<>> => pc # "fetch")
    /\ [][pc # "fetch" => (pc' # "fetch" /\ sent' = sent)]_vars
    /\ [][pc = "fetch" => transfers' = transfers]_vars
    /\ [][Len(sent') + Len(transfers') <= Len(sent) + Len(transfers) + 1]_vars

\* a run of two listing requests and then two media transfers has returned
C32_Witness ==
    /\ pc = "done"
    /\ Len(sent) = 2
    /\ Len(transfers) = 2

(* ---------------- the classifier applied on its own -------------------- *)
\* the "meta" of an item: no key, null, an empty block, or a block with keys
MetaBlocks ==
    { <<>>, [meta |-> None], [meta |-> Some({})], [meta |-> Some({"prompt"})],
      [meta |-> Some({"duration"})], [meta |-> Some({"fps"})],
      [meta |-> Some({"fps", "prompt"})] }

ClassifiedUrls ==
    {UrlJpeg, UrlMp4, UrlMp4Upper, UrlNoExt, UrlMpeg, UrlPng, UrlWebm, UrlMpgUpper, UrlDirMpeg}

\* self._is_video(url, item)
ApplyIsVideo ==
    /\ pc = "apply"
    /\ res' = _is_video(arg[1], arg[2])
    /\ pc' = "applied"
    /\ UNCHANGED <<pending, listing, arg, events, config, feed, run, downloaded_ids, stats, fetchVars,
                   loaded_ids, idx, outcomes, transfers, faults, diskVars, hist>>

InitClassifier ==
    /\ config = [target_images |-> 0, target_videos |-> 0, min_votes |-> 2, max_pages |-> 1]
    /\ feed = {}
    /\ pc = "apply"
    /\ arg \in ClassifiedUrls \X MetaBlocks
    /\ res = <<>>
    /\ run = 1
    /\ ledger_file = None
    /\ media_files = {}
    /\ meta_files = <<>>
    /\ config_file = None
    /\ downloaded_ids = {}
    /\ stats = ZeroStats
    /\ all_items = <<>>
    /\ next_cursor = None
    /\ request_count = 0
    /\ consecutive_low_votes = 0
    /\ stop_reason = "Fetching"
    /\ sent = <<>>
    /\ last_meta = <<>>
    /\ last_page = <<>>
    /\ last_good = 0
    /\ loaded_ids = {}
    /\ idx = 1
    /\ outcomes = <<>>
    /\ transfers = <<>>
    /\ faults = 0
    /\ hist = <<>>
    /\ events = <<>>
    /\ pending = {}
    /\ listing = <<>>

SpecClassifier == InitClassifier /\ [][ApplyIsVideo]_vars

\* the URLs with one of the five video extensions, in any letter case
VideoExtensionUrls == {UrlMp4, UrlMp4Upper, UrlWebm}

\* the other URLs whose content type, inferred from the extension of the
\* last path component, is video/...
VideoTypedUrls == {UrlMpeg, UrlMpgUpper}

\* the item's metadata block has a duration or a frame-rate field
HasVideoHint(it) ==
    /\ "meta" \in DOMAIN it
    /\ it.meta # None
    /\ ("duration" \in it.meta[1] \/ "fps" \in it.meta[1])

\* C33: for a URL without video extension, an item whose metadata block has
\* a duration or frame-rate field is Video, also when the URL has an image
\* extension; else a URL whose inferred content type is video/... is Video;
\* else the item is Image.
C33_DecisionOrder ==
    (pc = "applied" /\ arg[1] \notin VideoExtensionUrls) =>
        res = IF HasVideoHint(arg[2]) THEN TRUE
              ELSE IF arg[1] \in VideoTypedUrls THEN TRUE
              ELSE FALSE

\* a .jpeg URL with a frame-rate field in the metadata block is Video
C33_Witness ==
    /\ pc = "applied"
    /\ arg = <<UrlJpeg, [meta |-> Some({"fps", "prompt"})]>>
    /\ res = TRUE

\* C34 as stated: the five RunStats counters are the same when the fetch
\* phase stops as when it started.
C34_Original ==
    pc \in {"fetch", "fetched"} => stats = ZeroStats

\* C34: the fetch phase changes no downloaded and no skipped counter; it
\* adds one to the error count when a listing request fails with a
\* transport error, which ends the phase, and leaves it alone otherwise.
C34_FetchStatsFrame ==
    pc \in {"fetch", "fetched"} =>
        stats = [ZeroStats EXCEPT !.errors = IF stop_reason = "TransportError" THEN 1 ELSE 0]

\* the second listing request failed: the fetch has stopped with one error
C34_Witness ==
    /\ pc = "fetched"
    /\ stop_reason = "TransportError"
    /\ request_count = 1
    /\ Len(sent) = 2
    /\ stats.errors = 1

\* a time.sleep call
IsPause(e) == e \in {"sleep 1", "sleep 5", "sleep 0.5"}

\* a listing request that is not the first comes right after a pause, and a
\* download that succeeded is followed at once by a pause
PausesBetween ==
    /\ \A i \in DOMAIN events : (events[i] = "request" /\ i > 1) => IsPause(events[i - 1])
    /\ \A i \in DOMAIN events :
          events[i] = "downloaded" => (i < Len(events) /\ events[i + 1] = "sleep 0.5")

\* C35 as stated: pauses between consecutive listing requests and after
\* each successful download, and the fetch phase does not end with a pause.
C35_Original ==
    /\ PausesBetween
    /\ (pc = "fetched" /\ events # <<>>) => events[Len(events)] = "request"

\* C35: pauses between consecutive listing requests and after each
\* successful download; the fetch phase ends without pause when it stops
\* for the target, for low yield or as exhausted, with the 1 s pause when
\* the request ceiling ends it, and with a 5 s pause after a failed request.
C35_PolitenessPauses ==
    /\ PausesBetween
    /\ (pc = "fetched" /\ events # <<>>) =>
          events[Len(events)] =
             IF stop_reason \in {"TargetReached", "LowYield", "Exhausted"} THEN "request"
             ELSE IF stop_reason = "TransportError" THEN "sleep 5"
             ELSE "sleep 1"

\* two listing requests with a pause between, none after the second, and a
\* download followed by its pause
C35_Witness ==
    /\ pc = "done"
    /\ Len(events) >= 5
    /\ SubSeq(events, 1, 5) = <<"request", "sleep 1", "request", "downloaded", "sleep 0.5">>

\* C36: the two downloaded counters add up to the number of ids the run has
\* added to the ledger it loaded at its start.
C36_LedgerAccounting ==
    stats.images_downloaded + stats.videos_downloaded
       = Cardinality(downloaded_ids \ loaded_ids)

\* a run that loaded a ledger with an id in it has downloaded an item
C36_Witness ==
    /\ loaded_ids # {}
    /\ downloaded_ids # loaded_ids
    /\ stats.images_downloaded + stats.videos_downloaded >= 1

\* C37: during a run the in-memory ledger only grows, and a step changes it
\* only by adding the id of the item whose download has just succeeded; the
\* fetch phase and the iterations that skip, reject or fail leave it alone.
C37_LedgerFrame ==
    [][/\ downloaded_ids \subseteq downloaded_ids'
       /\ downloaded_ids' # downloaded_ids =>
             /\ AtItem
             /\ TransferredNow
             /\ outcomes' = Append(outcomes, "Downloaded")
             /\ downloaded_ids' = downloaded_ids \cup {IdOf(idx)}]_vars

\* a run that loaded a non-empty ledger has skipped an item it already had,
\* failed on one and downloaded another
C37_Witness ==
    /\ loaded_ids # {}
    /\ loaded_ids \subseteq downloaded_ids
    /\ loaded_ids # downloaded_ids
    /\ \E k \in DOMAIN outcomes : outcomes[k] = "Failed"
    /\ \E k \in DOMAIN outcomes : outcomes[k] = "SkippedAlreadyHave"
    /\ \E k \in DOMAIN outcomes : outcomes[k] = "Downloaded"

\* the ids the ledger file holds (a truncated file holds none)
FileIds == IF ledger_file \in {None, Truncated} THEN {} ELSE ledger_file[1]

\* the ledger the first run found on the disk
FirstLoaded == IF hist = <<>> THEN loaded_ids ELSE hist[1].loaded

\* ids whose bytes were transferred with success, in the current run or in
\* a run that has ended
Transferred ==
    {transfers[j].id : j \in {n \in DOMAIN transfers : transfers[n].ok}}
       \cup UNION {hist[i].got : i \in DOMAIN hist}

\* C38: in every state, kills and restarts included, an id the ledger file
\* holds was in the ledger the first run found or is the id of an item whose
\* bytes were transferred with success in this run or an earlier one, its
\* media file exists, and it is in the in-memory ledger; a step that writes
\* the file writes ids of the in-memory ledger only.
C38_PersistedLedgerSound ==
    /\ [](/\ FileIds \subseteq FirstLoaded \cup Transferred
          /\ FileIds \subseteq downloaded_ids
          /\ \A id \in FileIds : \E f \in media_files : f.stem = "civitai_" \o id)
    /\ [][ledger_file' # ledger_file =>
             (ledger_file' = Truncated \/ ledger_file'[1] \subseteq downloaded_ids')]_vars

\* the first run downloaded an item and saved the ledger; the second run,
\* started from that file, was killed after a download the file lacks
C38_Witness ==
    /\ run > 1
    /\ pc = "crashed"
    /\ prev.ended = "done"
    /\ prev.got # {}
    /\ prev.loaded # {}
    /\ FileIds = prev.ledger
    /\ \E j \in DOMAIN transfers : transfers[j].ok /\ transfers[j].id \notin FileIds

\* the directory of a kind
DirOf(is_video) == IF is_video THEN "videos" ELSE "images"

\* indices of the items of a kind that the loop has downloaded
DownloadedOfKind(is_video) ==
    {k \in DOMAIN outcomes : outcomes[k] = "Downloaded" /\ KindIsVideo(all_items[k]) = is_video}

\* C39: each kind's downloaded counter is the number of downloaded items
\* that the loop's quota check classified as that kind, the file of a
\* downloaded item is in that kind's directory and not in the other, and a
\* step that downloads an item found that kind's quota unmet, counts the
\* item for that kind and leaves the other kind's counter alone.
C39_KindConsistency ==
    /\ [](/\ stats.videos_downloaded = Cardinality(DownloadedOfKind(TRUE))
          /\ stats.images_downloaded = Cardinality(DownloadedOfKind(FALSE))
          /\ \A is_video \in BOOLEAN : \A k \in DownloadedOfKind(is_video) :
                /\ \E f \in media_files :
                      f.stem = "civitai_" \o IdOf(k) /\ f.dir = DirOf(is_video)
                /\ \A f \in media_files :
                      f.stem = "civitai_" \o IdOf(k) => f.dir = DirOf(is_video))
    /\ [][(AtItem /\ outcomes' = Append(outcomes, "Downloaded")) =>
             /\ ~KindFull(all_items[idx])
             /\ DownloadCounted(all_items[idx])]_vars

\* a run has downloaded an image and a video
C39_Witness ==
    /\ pc = "done"
    /\ DownloadedOfKind(TRUE) # {}
    /\ DownloadedOfKind(FALSE) # {}
    /\ \E f \in media_files : f.dir = "videos"
    /\ \E f \in media_files : f.dir = "images"

(* ------------- the destination path resolved on its own ---------------- *)
\* item ids of one, two and three digits
DestIds == {7, 42, 305}

\* the item download_media is called with: an id, a URL and the "meta" of arg
DestItem ==
    IF "meta" \in DOMAIN arg[3]
    THEN [id |-> Some(arg[1]), url |-> Some(arg[2]), meta |-> arg[3].meta]
    ELSE [id |-> Some(arg[1]), url |-> Some(arg[2])]

\* download_media resolves filepath and writes the bytes to it
ResolveDest ==
    /\ pc = "resolve"
    /\ res' = DestPath(DestItem)
    /\ media_files' = media_files \cup {res'}
    /\ pc' = "resolved"
    /\ UNCHANGED <<pending, listing, arg, events, config, feed, run, downloaded_ids, stats, fetchVars,
                   loaded_ids, idx, outcomes, transfers, faults, ledger_file, config_file, meta_files,
                   hist>>

\* a later run, whose ledger lacks the id, downloads the same item again
RedoDest ==
    /\ pc = "resolved"
    /\ run' = run + 1
    /\ res' = DestPath(DestItem)
    /\ media_files' = media_files \cup {res'}
    /\ pc' = "redone"
    /\ UNCHANGED <<pending, listing, arg, events, config, feed, downloaded_ids, stats, fetchVars,
                   loaded_ids, idx, outcomes, transfers, faults, ledger_file, config_file, meta_files,
                   hist>>

InitDestPath ==
    /\ config = [target_images |-> 1, target_videos |-> 1, min_votes |-> 2, max_pages |-> 1]
    /\ feed = {}
    /\ pc = "resolve"
    /\ arg \in DestIds \X ClassifiedUrls \X {<<>>, [meta |-> Some({"prompt"})], [meta |-> Some({"fps"})]}
    /\ res = <<>>
    /\ run = 1
    /\ ledger_file = None
    /\ media_files = {}
    /\ meta_files = <<>>
    /\ config_file = None
    /\ downloaded_ids = {}
    /\ stats = ZeroStats
    /\ all_items = <<>>
    /\ next_cursor = None
    /\ request_count = 0
    /\ consecutive_low_votes = 0
    /\ stop_reason = "Fetching"
    /\ sent = <<>>
    /\ last_meta = <<>>
    /\ last_page = <<>>
    /\ last_good = 0
    /\ loaded_ids = {}
    /\ idx = 1
    /\ outcomes = <<>>
    /\ transfers = <<>>
    /\ faults = 0
    /\ hist = <<>>
    /\ events = <<>>
    /\ pending = {}
    /\ listing = <<>>

NextDestPath == ResolveDest \/ RedoDest

SpecDestPath == InitDestPath /\ [][NextDestPath]_vars

\* the extensions of a URL: a dot that does not start the last path
\* component, with at least one character after it and neither dot nor
\* slash among them (there is at most one)
UrlExtensions(u) ==
    {SubSeq(u, i, Len(u)) :
        i \in {n \in 2..(Len(u) - 1) :
                 /\ u[n] = "."
                 /\ u[n - 1] # "/"
                 /\ \A j \in (n + 1)..Len(u) : u[j] \notin {".", "/"}}}

\* C40: the destination of a download is named civitai_ followed by the
\* item id and by the URL's extension when it has one, else by .jpeg for an
\* image and .mp4 for a video; a download of the same item in a later run
\* resolves the same path, so a single file exists for it.
C40_DestinationName ==
    pc \in {"resolved", "redone"} =>
        /\ res.stem = "civitai_" \o Str(arg[1])
        /\ IF UrlExtensions(arg[2]) # {}
           THEN res.ext \in UrlExtensions(arg[2])
           ELSE res.ext = (IF _is_video(arg[2], DestItem)
                           THEN <<".", "m", "p", "4">>
                           ELSE <<".", "j", "p", "e", "g">>)
        /\ media_files = {res}

\* the download of a video whose URL has no extension has been redone
C40_Witness ==
    /\ pc = "redone"
    /\ arg[2] = UrlNoExt
    /\ res.ext = <<".", "m", "p", "4">>
    /\ res.stem = "civitai_305"

====
